---- MODULE Spec2Model ----
(***************************************************************************)
(* Model of lorina's Verilog AST graph (include/lorina/verilog/            *)
(* ast_graph.hpp): the node classes, the arena verilog_ast_graph that owns *)
(* the nodes, the two identifier intern maps, the declaration adapters and *)
(* the dereference operations.                                             *)
(*                                                                         *)
(* A handle (ast_id) h names the node stored at nodes_[h]; TLA+ sequences  *)
(* start at 1, so that node is the (h+1)-th element of the sequence.       *)
(***************************************************************************)
EXTENDS Integers, Sequences, FiniteSets, TLC

\* ------------------------------------------------------------------ bounds

\* Most create calls the driver makes in the specification of the whole API.
MaxCalls == 2
\* Most create calls in the specification of the leaf creates.
MaxInternCalls == 4
\* Most create calls in the specification of the declaration adapters.
MaxDeclCalls == 3
\* Longest vector of handles a caller passes.
MaxListLen == 2

\* The texts callers pass (the empty text included).
Texts == {"", "x"}

VARIABLES
  nodes_,                       \* std::vector<ast_node*> nodes_
  identifier_hash_,             \* text -> handle, Identifier pool
  arithmetic_identifier_hash_,  \* text -> handle, ArithmeticIdentifier pool
  ndebug,                       \* the build: TRUE when assert() is compiled out
  alive,                        \* FALSE once the process has been terminated
  last,                         \* the last call of the API and how it ended
  calls,                        \* number of create calls that returned
  wellformed,                   \* every handle passed so far named a stored node
                                \* and no child handle was rewritten
  limit                         \* most create calls the driver makes

vars == <<nodes_, identifier_hash_, arithmetic_identifier_hash_, ndebug,
          alive, last, calls, wellformed, limit>>

\* --------------------------------------------------------------- node classes

ast_node(id, tag, children, payload) ==
  [id |-> id, tag |-> tag, children |-> children, payload |-> payload]

ast_numeral(id, value) ==
  ast_node(id, "Numeral", <<>>, [value |-> value])

ast_identifier(id, identifier) ==
  ast_node(id, "Identifier", <<>>, [identifier |-> identifier])

ast_arithmetic_identifier(id, identifier) ==
  ast_node(id, "ArithmeticIdentifier", <<>>, [identifier |-> identifier])

ast_identifier_list(id, identifiers) ==
  ast_node(id, "IdentifierList", identifiers, [none |-> TRUE])

ast_array_select(id, array, index) ==
  ast_node(id, "ArraySelect", <<array, index>>, [none |-> TRUE])

ast_range_expression(id, hi, lo) ==
  ast_node(id, "RangeExpression", <<hi, lo>>, [none |-> TRUE])

SIGN_MINUS == 1

ast_sign(id, kind, expr) ==
  ast_node(id, "Sign", <<expr>>, [kind |-> kind])

EXPR_ADD == 1
EXPR_MUL == 2
EXPR_NOT == 3
EXPR_AND == 4
EXPR_OR == 5
EXPR_XOR == 6

ast_expression1(id, kind, left) ==
  ast_node(id, "Expression", <<left>>, [kind |-> kind])

\* Faulty variant of ast_expression2: the operands stored in reverse order.
ast_expression2_swapped(id, kind, left, right) ==
  ast_node(id, "Expression", <<right, left>>, [kind |-> kind])

ast_expression2(id, kind, left, right) ==
  ast_node(id, "Expression", <<left, right>>, [kind |-> kind])

ast_system_function(id, fun, args) ==
  ast_node(id, "SystemFunction", args, [fun |-> fun])

\* The bit-level constructors leave hi_ and lo_ unset: the payload has no range.
ast_input_declaration(id, identifiers) ==
  ast_node(id, "InputDeclaration", identifiers, [word_level |-> FALSE])

ast_input_declaration_range(id, identifiers, hi, lo) ==
  ast_node(id, "InputDeclaration", identifiers,
           [word_level |-> TRUE, hi |-> hi, lo |-> lo])

ast_output_declaration(id, identifiers) ==
  ast_node(id, "OutputDeclaration", identifiers, [word_level |-> FALSE])

ast_output_declaration_range(id, identifiers, hi, lo) ==
  ast_node(id, "OutputDeclaration", identifiers,
           [word_level |-> TRUE, hi |-> hi, lo |-> lo])

ast_wire_declaration(id, identifiers) ==
  ast_node(id, "WireDeclaration", identifiers, [word_level |-> FALSE])

ast_wire_declaration_range(id, identifiers, hi, lo) ==
  ast_node(id, "WireDeclaration", identifiers,
           [word_level |-> TRUE, hi |-> hi, lo |-> lo])

ast_module_instantiation(id, module_name, instance_name, port_assignment, parameters) ==
  ast_node(id, "ModuleInstantiation", <<>>,
           [module_name |-> module_name, instance_name |-> instance_name,
            port_assignment |-> port_assignment, parameters |-> parameters])

ast_parameter_declaration(id, identifier, expr) ==
  ast_node(id, "ParameterDeclaration", <<identifier, expr>>, [none |-> TRUE])

ast_assignment(id, signal, expr) ==
  ast_node(id, "Assignment", <<signal, expr>>, [none |-> TRUE])

ast_module(id, module_name, args, decls) ==
  ast_node(id, "Module", <<>>,
           [module_name |-> module_name, args |-> args, decls |-> decls])

\* Accessors of the declaration classes and of ast_range_expression.
word_level(n) == n.payload.word_level

bit_level(n) == ~n.payload.word_level

identifiers(n) == n.children

hi_of(n) == IF n.tag = "RangeExpression" THEN n.children[1] ELSE n.payload.hi

lo_of(n) == IF n.tag = "RangeExpression" THEN n.children[2] ELSE n.payload.lo

\* ------------------------------------------------------------------- arena

\* nodes_[id] for a handle inside the vector
node(id) == nodes_[id + 1]

\* Faulty variant of index: the size after the append.
index_off == Len(nodes_) + 1

\* create_node: the index given to the new node
index == Len(nodes_)

\* Faulty variant of emplace_back: the new node is put in front of the others.
emplace_back_front(n) == <<n>> \o nodes_

\* create_node: nodes_.emplace_back( new T( index, args... ) )
emplace_back(n) == Append(nodes_, n)

\* std::unordered_map::find( key ) != end
found(map, key) == key \in DOMAIN map

\* Faulty variant of emplace: the mapping is not recorded.
emplace_dropped(map, key, value) == map

\* std::unordered_map::emplace( key, value ): no effect on a key that is present
emplace(map, key, value) ==
  IF key \in DOMAIN map THEN map ELSE map @@ (key :> value)

\* The handles a caller passes: those of the stored nodes and the next one,
\* which names no node at the time of the call.
ArgHandles == 0..Len(nodes_)

\* The vectors of handles a caller passes.
ArgLists == UNION {[1..n -> ArgHandles] : n \in 0..MaxListLen}

\* Whether every handle of S names a stored node.
Stored(S) == \A h \in S : h < Len(nodes_)

Range(s) == {s[i] : i \in DOMAIN s}

\* The process can take a create call (and the driver has calls left to make).
Room == alive /\ calls < limit

\* A create call that returned handle r.
Returned(op, args, r) ==
  [op |-> op, args |-> args, outcome |-> "returned", ret |-> r, size_before |-> Len(nodes_)]

\* A call that ended the process (std::abort, a failed assert, a crash).
Ended(op, args, how) ==
  [op |-> op, args |-> args, outcome |-> how, ret |-> -1, size_before |-> Len(nodes_)]

\* A create call appends node n and returns its handle.
Appends(op, args, n, handles) ==
  /\ nodes_' = emplace_back(n)
  /\ last' = Returned(op, args, index)
  /\ calls' = calls + 1
  /\ wellformed' = (wellformed /\ Stored(handles))
  /\ UNCHANGED <<ndebug, alive, limit>>

\* A call terminates the process.
Terminates(op, args, how, handles) ==
  /\ alive' = FALSE
  /\ last' = Ended(op, args, how)
  /\ wellformed' = (wellformed /\ Stored(handles))
  /\ UNCHANGED <<nodes_, identifier_hash_, arithmetic_identifier_hash_, ndebug, calls, limit>>

\* Faulty variant of create_numeral: numerals deduplicated by their text.
create_numeral_interned(numeral) ==
  /\ Room
  /\ LET same == {h \in 0..(Len(nodes_) - 1) :
                    /\ nodes_[h + 1].tag = "Numeral"
                    /\ nodes_[h + 1].payload.value = numeral} IN
     IF same = {}
     THEN Appends("create_numeral", <<numeral>>, ast_numeral(index, numeral), {})
     ELSE /\ last' = Returned("create_numeral", <<numeral>>, CHOOSE h \in same : TRUE)
          /\ calls' = calls + 1
          /\ UNCHANGED <<nodes_, ndebug, alive, wellformed, limit>>
  /\ UNCHANGED <<identifier_hash_, arithmetic_identifier_hash_>>

create_numeral(numeral) ==
  /\ Room
  /\ Appends("create_numeral", <<numeral>>, ast_numeral(index, numeral), {})
  /\ UNCHANGED <<identifier_hash_, arithmetic_identifier_hash_>>

create_identifier(identifier) ==
  /\ Room
  /\ IF ~found(identifier_hash_, identifier)
     THEN /\ Appends("create_identifier", <<identifier>>,
                     ast_identifier(index, identifier), {})
          /\ identifier_hash_' = emplace(identifier_hash_, identifier, index)
     ELSE /\ last' = Returned("create_identifier", <<identifier>>,
                              identifier_hash_[identifier])
          /\ calls' = calls + 1
          /\ UNCHANGED <<nodes_, identifier_hash_, ndebug, alive, wellformed, limit>>
  /\ UNCHANGED arithmetic_identifier_hash_

\* Faulty variant of create_arithmetic_identifier: looked up in the Identifier pool.
create_arithmetic_identifier_shared(identifier) ==
  /\ Room
  /\ IF ~found(identifier_hash_, identifier)
     THEN /\ Appends("create_arithmetic_identifier", <<identifier>>,
                     ast_arithmetic_identifier(index, identifier), {})
          /\ identifier_hash_' = emplace(identifier_hash_, identifier, index)
     ELSE /\ last' = Returned("create_arithmetic_identifier", <<identifier>>,
                              identifier_hash_[identifier])
          /\ calls' = calls + 1
          /\ UNCHANGED <<nodes_, identifier_hash_, ndebug, alive, wellformed, limit>>
  /\ UNCHANGED arithmetic_identifier_hash_

create_arithmetic_identifier(identifier) ==
  /\ Room
  /\ IF ~found(arithmetic_identifier_hash_, identifier)
     THEN /\ Appends("create_arithmetic_identifier", <<identifier>>,
                     ast_arithmetic_identifier(index, identifier), {})
          /\ arithmetic_identifier_hash_' =
               emplace(arithmetic_identifier_hash_, identifier, index)
     ELSE /\ last' = Returned("create_arithmetic_identifier", <<identifier>>,
                              arithmetic_identifier_hash_[identifier])
          /\ calls' = calls + 1
          /\ UNCHANGED <<nodes_, arithmetic_identifier_hash_, ndebug, alive,
                         wellformed, limit>>
  /\ UNCHANGED identifier_hash_

create_identifier_list(identifier_list) ==
  /\ Room
  /\ Appends("create_identifier_list", <<identifier_list>>,
             ast_identifier_list(index, identifier_list), Range(identifier_list))
  /\ UNCHANGED <<identifier_hash_, arithmetic_identifier_hash_>>

create_range_expression(hi, lo) ==
  /\ Room
  /\ Appends("create_range_expression", <<hi, lo>>,
             ast_range_expression(index, hi, lo), {hi, lo})
  /\ UNCHANGED <<identifier_hash_, arithmetic_identifier_hash_>>

create_array_select(array, idx) ==
  /\ Room
  /\ Appends("create_array_select", <<array, idx>>,
             ast_array_select(index, array, idx), {array, idx})
  /\ UNCHANGED <<identifier_hash_, arithmetic_identifier_hash_>>

create_sum_expression(term, expr) ==
  /\ Room
  /\ Appends("create_sum_expression", <<term, expr>>,
             ast_expression2(index, EXPR_ADD, term, expr), {term, expr})
  /\ UNCHANGED <<identifier_hash_, arithmetic_identifier_hash_>>

create_negative_sign(expr) ==
  /\ Room
  /\ Appends("create_negative_sign", <<expr>>,
             ast_sign(index, SIGN_MINUS, expr), {expr})
  /\ UNCHANGED <<identifier_hash_, arithmetic_identifier_hash_>>

create_mul_expression(term, expr) ==
  /\ Room
  /\ Appends("create_mul_expression", <<term, expr>>,
             ast_expression2(index, EXPR_MUL, term, expr), {term, expr})
  /\ UNCHANGED <<identifier_hash_, arithmetic_identifier_hash_>>

create_not_expression(expr) ==
  /\ Room
  /\ Appends("create_not_expression", <<expr>>,
             ast_expression1(index, EXPR_NOT, expr), {expr})
  /\ UNCHANGED <<identifier_hash_, arithmetic_identifier_hash_>>

create_and_expression(term, expr) ==
  /\ Room
  /\ Appends("create_and_expression", <<term, expr>>,
             ast_expression2(index, EXPR_AND, term, expr), {term, expr})
  /\ UNCHANGED <<identifier_hash_, arithmetic_identifier_hash_>>

create_or_expression(term, expr) ==
  /\ Room
  /\ Appends("create_or_expression", <<term, expr>>,
             ast_expression2(index, EXPR_OR, term, expr), {term, expr})
  /\ UNCHANGED <<identifier_hash_, arithmetic_identifier_hash_>>

create_xor_expression(term, expr) ==
  /\ Room
  /\ Appends("create_xor_expression", <<term, expr>>,
             ast_expression2(index, EXPR_XOR, term, expr), {term, expr})
  /\ UNCHANGED <<identifier_hash_, arithmetic_identifier_hash_>>

create_system_function(fun, args) ==
  /\ Room
  /\ Appends("create_system_function", <<fun, args>>,
             ast_system_function(index, fun, args), {fun} \cup Range(args))
  /\ UNCHANGED <<identifier_hash_, arithmetic_identifier_hash_>>

create_module_instantiation(module_name, instance_name, port_assignment, parameters) ==
  /\ Room
  /\ Appends("create_module_instantiation",
             <<module_name, instance_name, port_assignment, parameters>>,
             ast_module_instantiation(index, module_name, instance_name,
                                      port_assignment, parameters),
             {module_name, instance_name} \cup Range(parameters)
               \cup {p[1] : p \in Range(port_assignment)}
               \cup {p[2] : p \in Range(port_assignment)})
  /\ UNCHANGED <<identifier_hash_, arithmetic_identifier_hash_>>

create_parameter_declaration(identifier, expr) ==
  /\ Room
  /\ Appends("create_parameter_declaration", <<identifier, expr>>,
             ast_parameter_declaration(index, identifier, expr), {identifier, expr})
  /\ UNCHANGED <<identifier_hash_, arithmetic_identifier_hash_>>

create_assignment(signal, expr) ==
  /\ Room
  /\ Appends("create_assignment", <<signal, expr>>,
             ast_assignment(index, signal, expr), {signal, expr})
  /\ UNCHANGED <<identifier_hash_, arithmetic_identifier_hash_>>

create_module(module_name, args, decls) ==
  /\ Room
  /\ Appends("create_module", <<module_name, args, decls>>,
             ast_module(index, module_name, args, decls),
             Range(args) \cup Range(decls))
  /\ UNCHANGED <<identifier_hash_, arithmetic_identifier_hash_>>

\* Faulty variant of identifier_branch: a single identifier stored as the handle of
\* the declaration being created.
identifier_branch_own(n, id) ==
  IF n.tag = "IdentifierList"
  THEN [out |-> "ids", ids |-> n.children]
  ELSE IF n.tag = "Identifier"
       THEN [out |-> "ids", ids |-> <<Len(nodes_)>>]
       ELSE [out |-> "abort"]

\* Faulty variant of identifier_branch: the handle of the list is kept with its children.
identifier_branch_with_list(n, id) ==
  IF n.tag = "IdentifierList"
  THEN [out |-> "ids", ids |-> <<id>> \o n.children]
  ELSE IF n.tag = "Identifier"
       THEN [out |-> "ids", ids |-> <<id>>]
       ELSE [out |-> "abort"]

\* Faulty variant of identifier_branch: any other node is taken as a single identifier.
identifier_branch_lenient(n, id) ==
  IF n.tag = "IdentifierList"
  THEN [out |-> "ids", ids |-> n.children]
  ELSE [out |-> "ids", ids |-> <<id>>]

\* The branch on the class of the node read for the handle id (lines 925-938
\* and their five copies): the identifier vector of the declaration, or abort.
identifier_branch(n, id) ==
  IF n.tag = "IdentifierList"
  THEN [out |-> "ids", ids |-> n.children]
  ELSE IF n.tag = "Identifier"
       THEN [out |-> "ids", ids |-> <<id>>]
       ELSE [out |-> "abort"]

\* What the adapters make of the handle id (lines 922-938). A handle outside
\* nodes_ fails the assert. With assert compiled out nodes_[id] reads past the
\* vector: the pointer read there is null (both dynamic_casts fail: abort), is
\* no object (crash), or is a stale pointer to one of the stored nodes.
identifier_source(id) ==
  IF id < Len(nodes_)
  THEN {identifier_branch(node(id), id)}
  ELSE IF ~ndebug
       THEN {[out |-> "abort"]}
       ELSE {[out |-> "crash"], [out |-> "abort"]}
            \cup {identifier_branch(nodes_[k], id) : k \in 1..Len(nodes_)}

\* A value read out of bounds that the process survives: some handle.
Garbage == {0, Len(nodes_)}

\* Faulty variant of range_branch: hi and lo exchanged.
range_branch_swapped(n) ==
  IF Len(n.children) >= 2
  THEN {[out |-> "range", hi |-> n.children[2], lo |-> n.children[1]]}
  ELSE {[out |-> "crash"]}

\* range->hi() and range->lo() on node n (lines 302-310): children_[0] and
\* children_[1], read unchecked. A vector of no children holds no storage
\* (crash); behind a single child lies whatever the heap holds.
range_branch(n) ==
  IF Len(n.children) >= 2
  THEN {[out |-> "range", hi |-> n.children[1], lo |-> n.children[2]]}
  ELSE IF Len(n.children) = 1
       THEN {[out |-> "crash"]}
            \cup {[out |-> "range", hi |-> n.children[1], lo |-> g] : g \in Garbage}
       ELSE {[out |-> "crash"]}

\* What range->hi() and range->lo() give for the handle rid (lines 947, 950):
\* the node is static_cast to ast_range_expression whatever its class. With
\* assert compiled out and rid outside nodes_, the pointer is read past the
\* vector as in identifier_source.
range_source(rid) ==
  IF rid < Len(nodes_)
  THEN range_branch(node(rid))
  ELSE IF ~ndebug
       THEN {[out |-> "abort"]}
       ELSE {[out |-> "crash"]}
            \cup UNION {range_branch(nodes_[k]) : k \in 1..Len(nodes_)}

\* The declaration each bit-level adapter constructs.
new_declaration(op, id, ids) ==
  CASE op = "create_input_declaration" -> ast_input_declaration(id, ids)
    [] op = "create_output_declaration" -> ast_output_declaration(id, ids)
    [] op = "create_wire_declaration" -> ast_wire_declaration(id, ids)

\* The declaration each word-level adapter constructs.
new_declaration_range(op, id, ids, hi, lo) ==
  CASE op = "create_input_declaration" -> ast_input_declaration_range(id, ids, hi, lo)
    [] op = "create_output_declaration" -> ast_output_declaration_range(id, ids, hi, lo)
    [] op = "create_wire_declaration" -> ast_wire_declaration_range(id, ids, hi, lo)

\* The bit-level adapter op.
declaration(op, id) ==
  /\ Room
  /\ \E s \in identifier_source(id) :
       IF s.out = "ids"
       THEN /\ Appends(op, <<id>>, new_declaration(op, index, s.ids), {id})
            /\ UNCHANGED <<identifier_hash_, arithmetic_identifier_hash_>>
       ELSE Terminates(op, <<id>>, s.out, {id})

\* The word-level adapter op. Both asserts come first; the range is read only
\* in the two branches that create the declaration.
declaration_range(op, id, rid) ==
  /\ Room
  /\ IF ~ndebug /\ (id >= Len(nodes_) \/ rid >= Len(nodes_))
     THEN Terminates(op, <<id, rid>>, "abort", {id, rid})
     ELSE \E s \in identifier_source(id) :
            IF s.out # "ids"
            THEN Terminates(op, <<id, rid>>, s.out, {id, rid})
            ELSE \E r \in range_source(rid) :
                   IF r.out # "range"
                   THEN Terminates(op, <<id, rid>>, r.out, {id, rid})
                   ELSE /\ Appends(op, <<id, rid>>,
                                   new_declaration_range(op, index, s.ids, r.hi, r.lo),
                                   {id, rid})
                        /\ UNCHANGED <<identifier_hash_, arithmetic_identifier_hash_>>

create_input_declaration(id) ==
  declaration("create_input_declaration", id)

create_input_declaration_range(id, rid) ==
  declaration_range("create_input_declaration", id, rid)

create_output_declaration(id) ==
  declaration("create_output_declaration", id)

create_output_declaration_range(id, rid) ==
  declaration_range("create_output_declaration", id, rid)

create_wire_declaration(id) ==
  declaration("create_wire_declaration", id)

create_wire_declaration_range(id, rid) ==
  declaration_range("create_wire_declaration", id, rid)

\* Faulty variant of at: a handle past the end is clamped to the last element.
at_clamped(id) ==
  IF Len(nodes_) = 0
  THEN [thrown |-> TRUE]
  ELSE [thrown |-> FALSE,
        element |-> nodes_[(IF id < Len(nodes_) THEN id ELSE Len(nodes_) - 1) + 1]]

\* std::vector::at( id ): the element, or std::out_of_range thrown.
at(id) ==
  IF id < Len(nodes_)
  THEN [thrown |-> FALSE, element |-> nodes_[id + 1]]
  ELSE [thrown |-> TRUE]

\* node_ptr: nodes_.at( id ) returns the stored pointer, or throws
\* std::out_of_range for an id outside the vector. The exception reaches the
\* caller, who catches it or lets it end the process (std::terminate).
node_ptr(id) ==
  /\ alive
  /\ IF ~at(id).thrown
     THEN /\ last' = [op |-> "node_ptr", args |-> <<id>>, outcome |-> "returned",
                      ret |-> at(id).element, size_before |-> Len(nodes_)]
          /\ UNCHANGED alive
     ELSE \E caught \in BOOLEAN :
            /\ last' = [op |-> "node_ptr", args |-> <<id>>, outcome |-> "out_of_range",
                        ret |-> -1, size_before |-> Len(nodes_)]
            /\ alive' = caught
  /\ UNCHANGED <<nodes_, identifier_hash_, arithmetic_identifier_hash_, ndebug,
                 calls, wellformed, limit>>

\* Faulty variant of foreach_child: the callback also drops the last child.
foreach_child_resizing(id, written) ==
  /\ alive
  /\ id < Len(nodes_)
  /\ Len(written) = Len(node(id).children)
  /\ nodes_' = [nodes_ EXCEPT ![id + 1].children =
                  SubSeq(written, 1, Len(written) - 1)]
  /\ last' = [op |-> "foreach_child", args |-> <<id>>, outcome |-> "returned",
              ret |-> -1, size_before |-> Len(nodes_)]
  /\ wellformed' = (wellformed /\ written = node(id).children)
  /\ UNCHANGED <<identifier_hash_, arithmetic_identifier_hash_, ndebug, alive,
                 calls, limit>>

\* node_ptr( id )->foreach_child( fn ), the non-const form: fn receives each
\* child handle by reference and leaves in it the value it chooses.
foreach_child(id, written) ==
  /\ alive
  /\ id < Len(nodes_)
  /\ Len(written) = Len(node(id).children)
  /\ nodes_' = [nodes_ EXCEPT ![id + 1].children = written]
  /\ last' = [op |-> "foreach_child", args |-> <<id>>, outcome |-> "returned",
              ret |-> -1, size_before |-> Len(nodes_)]
  /\ wellformed' = (wellformed /\ written = node(id).children)
  /\ UNCHANGED <<identifier_hash_, arithmetic_identifier_hash_, ndebug, alive,
                 calls, limit>>

\* ast_id is uint32_t: a word of Width bits, bit 0 the least significant.
Width == 32
Bits == 0..(Width - 1)

\* Bit i of the natural number n.
RECURSIVE bit(_, _)
bit(n, i) == IF i = 0 THEN n % 2 ELSE bit(n \div 2, i - 1)

\* The ast_id holding the natural number n (n below 2^31 here).
uint32(n) == [i \in Bits |-> bit(n, i)]

\* The literals 0x80000000 and 0x7FFFFFFF.
x80000000 == [i \in Bits |-> IF i = Width - 1 THEN 1 ELSE 0]
x7FFFFFFF == [i \in Bits |-> IF i = Width - 1 THEN 0 ELSE 1]

\* The operators | and & of two ast_id words.
bit_or(a, b) == [i \in Bits |-> IF a[i] = 1 \/ b[i] = 1 THEN 1 ELSE 0]
bit_and(a, b) == [i \in Bits |-> IF a[i] = 1 /\ b[i] = 1 THEN 1 ELSE 0]

\* Faulty variant of ast_or_error: the marker bit is left as the handle has it.
ast_or_error_unmarked(h) == [ast_ |-> h]

\* ast_or_error( ast_id ast ) : ast_( ast ) { ast_ |= 0x80000000; }
ast_or_error(h) == [ast_ |-> bit_or(h, x80000000)]

\* ast_or_error() : ast_( 0 )
ast_or_error_default == [ast_ |-> uint32(0)]

\* ast_or_error::ast(): ast_ & 0x7FFFFFFF
ast(e) == bit_and(e.ast_, x7FFFFFFF)

\* ast_or_error::valid(): ast_ & 0x80000000, converted to bool
valid(e) == bit_and(e.ast_, x80000000) # uint32(0)

\* The words callers wrap: the handles of the arena, the next handle, and the
\* words around the marker bit (0x7FFFFFFF is 2147483647).
Words ==
  {uint32(n) : n \in ArgHandles \cup {2147483646, 2147483647}}
  \cup {x80000000, bit_or(x80000000, uint32(1)), bit_or(x80000000, x7FFFFFFF)}

\* A caller constructs an ast_or_error from the word h.
construct_ast_or_error(h) ==
  /\ alive
  /\ last' = [op |-> "ast_or_error", args |-> <<h>>, outcome |-> "returned",
              ret |-> ast_or_error(h), size_before |-> Len(nodes_)]
  /\ UNCHANGED <<nodes_, identifier_hash_, arithmetic_identifier_hash_, ndebug,
                 alive, calls, wellformed, limit>>

\* A caller default-constructs an ast_or_error.
construct_ast_or_error_default ==
  /\ alive
  /\ last' = [op |-> "ast_or_error", args |-> <<>>, outcome |-> "returned",
              ret |-> ast_or_error_default, size_before |-> Len(nodes_)]
  /\ UNCHANGED <<nodes_, identifier_hash_, arithmetic_identifier_hash_, ndebug,
                 alive, calls, wellformed, limit>>

\* The port assignments and parameter vectors callers pass with handles a and b.
PortAssignments(a, b) == {<<>>, << <<a, b>> >>, << <<b, a>>, <<a, a>> >>}
ParameterLists(a, b) == {<<>>, <<b, a>>}

\* The declaration vectors callers pass.
DeclLists == {<<>>} \cup {<<h>> : h \in ArgHandles}

InitWith(l) ==
  /\ nodes_ = <<>>
  /\ identifier_hash_ = <<>>
  /\ arithmetic_identifier_hash_ = <<>>
  /\ ndebug \in BOOLEAN
  /\ alive = TRUE
  /\ last = [op |-> "verilog_ast_graph", args |-> <<>>, outcome |-> "returned",
             ret |-> -1, size_before |-> 0]
  /\ calls = 0
  /\ wellformed = TRUE
  /\ limit = l

Init == InitWith(MaxCalls)

Next ==
  \/ \E s \in Texts : create_numeral(s)
  \/ \E s \in Texts : create_identifier(s)
  \/ \E s \in Texts : create_arithmetic_identifier(s)
  \/ \E l \in ArgLists : create_identifier_list(l)
  \/ \E hi, lo \in ArgHandles : create_range_expression(hi, lo)
  \/ \E a, i \in ArgHandles : create_array_select(a, i)
  \/ \E t, e \in ArgHandles : create_sum_expression(t, e)
  \/ \E e \in ArgHandles : create_negative_sign(e)
  \/ \E t, e \in ArgHandles : create_mul_expression(t, e)
  \/ \E e \in ArgHandles : create_not_expression(e)
  \/ \E t, e \in ArgHandles : create_and_expression(t, e)
  \/ \E t, e \in ArgHandles : create_or_expression(t, e)
  \/ \E t, e \in ArgHandles : create_xor_expression(t, e)
  \/ \E f \in ArgHandles, l \in ArgLists : create_system_function(f, l)
  \/ \E m, i \in ArgHandles :
       \E pa \in PortAssignments(m, i), ps \in ParameterLists(m, i) :
         create_module_instantiation(m, i, pa, ps)
  \/ \E i, e \in ArgHandles : create_parameter_declaration(i, e)
  \/ \E sg, e \in ArgHandles : create_assignment(sg, e)
  \/ \E s \in Texts, l \in ArgLists, d \in DeclLists : create_module(s, l, d)
  \/ \E id \in ArgHandles : create_input_declaration(id)
  \/ \E id, rid \in ArgHandles : create_input_declaration_range(id, rid)
  \/ \E id \in ArgHandles : create_output_declaration(id)
  \/ \E id, rid \in ArgHandles : create_output_declaration_range(id, rid)
  \/ \E id \in ArgHandles : create_wire_declaration(id)
  \/ \E id, rid \in ArgHandles : create_wire_declaration_range(id, rid)
  \/ \E id \in ArgHandles : node_ptr(id)
  \/ \E id \in ArgHandles, w \in ArgLists : foreach_child(id, w)

Spec == Init /\ [][Next]_vars

\* The leaf creates and the dereference, with creates of other nodes interleaved.
InitIntern == InitWith(MaxInternCalls)

NextIntern ==
  \/ \E s \in Texts : create_numeral(s)
  \/ \E s \in Texts : create_identifier(s)
  \/ \E s \in Texts : create_arithmetic_identifier(s)
  \/ \E e \in ArgHandles : create_not_expression(e)
  \/ \E id \in ArgHandles : node_ptr(id)

SpecIntern == InitIntern /\ [][NextIntern]_vars

\* The declaration adapters and the nodes they read.
InitDecl == InitWith(MaxDeclCalls)

NextDecl ==
  \/ \E s \in Texts : create_numeral(s)
  \/ \E s \in Texts : create_identifier(s)
  \/ \E l \in ArgLists : create_identifier_list(l)
  \/ \E hi, lo \in ArgHandles : create_range_expression(hi, lo)
  \/ \E id \in ArgHandles : create_input_declaration(id)
  \/ \E id, rid \in ArgHandles : create_input_declaration_range(id, rid)
  \/ \E id \in ArgHandles : create_output_declaration(id)
  \/ \E id, rid \in ArgHandles : create_output_declaration_range(id, rid)
  \/ \E id \in ArgHandles : create_wire_declaration(id)
  \/ \E id, rid \in ArgHandles : create_wire_declaration_range(id, rid)

SpecDecl == InitDecl /\ [][NextDecl]_vars

\* The handle-or-error values callers build from the handles the creates return.
InitError == InitWith(MaxInternCalls)

NextError ==
  \/ \E s \in Texts : create_numeral(s)
  \/ \E s \in Texts : create_identifier(s)
  \/ \E h \in Words : construct_ast_or_error(h)
  \/ construct_ast_or_error_default

SpecError == InitError /\ [][NextError]_vars

\* ------------------------------------------------------------------ claims

\* The names of the create operations.
LeafOps == {"create_numeral", "create_identifier", "create_arithmetic_identifier"}

DeclOps == {"create_input_declaration", "create_output_declaration",
            "create_wire_declaration"}

CreateOps == LeafOps \cup DeclOps \cup
  {"create_identifier_list", "create_range_expression", "create_array_select",
   "create_sum_expression", "create_negative_sign", "create_mul_expression",
   "create_not_expression", "create_and_expression", "create_or_expression",
   "create_xor_expression", "create_system_function", "create_module_instantiation",
   "create_parameter_declaration", "create_assignment", "create_module"}

\* The last call was a create that returned a handle.
Created == last.op \in CreateOps /\ last.outcome = "returned"

\* Every stored node reports the handle of its slot.
OwnHandles == \A i \in 1..Len(nodes_) : nodes_[i].id = i - 1

\* C1 as stated: after n create calls that returned (any mix), the handles in
\* [0, n) are exactly the handles of the stored nodes, and the node at handle i
\* reports id() = i.
C1_DenseAfterNCalls == Len(nodes_) = calls /\ OwnHandles

\* C1, amended: the handles in [0, size) are exactly the handles of the stored
\* nodes, where size counts the creates that appended a node and is at most the
\* number n of creates that returned; the node at handle i reports id() = i, and
\* the handle a create returns names a stored node that reports that handle.
C1_DenseIds ==
  /\ Len(nodes_) <= calls
  /\ OwnHandles
  /\ Created => (last.ret \in 0..(Len(nodes_) - 1) /\ node(last.ret).id = last.ret)

C1_Witness ==
  /\ calls = 2
  /\ Len(nodes_) = 2
  /\ nodes_[1].tag = "Identifier"
  /\ nodes_[2].tag = "Module"

\* The handles below h of the nodes of class tag that hold text s.
Prior(tag, s, h) ==
  {k \in 0..(h - 1) : node(k).tag = tag /\ node(k).payload.identifier = s}

\* What one call of an interning create has done: on the first call for s the
\* arena grew by one and the new handle is returned; on a later call the arena
\* is as it was and the handle of the one earlier node is returned.
Interned(op, tag) ==
  (last.op = op /\ last.outcome = "returned") =>
    LET s == last.args[1]
        prior == Prior(tag, s, last.size_before) IN
    IF prior = {}
    THEN /\ Len(nodes_) = last.size_before + 1
         /\ last.ret = last.size_before
         /\ Prior(tag, s, Len(nodes_)) = {last.ret}
    ELSE /\ Len(nodes_) = last.size_before
         /\ prior = {last.ret}

\* C2: create_identifier(s), for every text s (the empty one included) and with
\* other creates interleaved, returns the same handle on every call: the arena
\* grows by one on the first call and by nothing on the later ones. The same
\* holds of create_arithmetic_identifier(s).
C2_Interning ==
  /\ Interned("create_identifier", "Identifier")
  /\ Interned("create_arithmetic_identifier", "ArithmeticIdentifier")

C2_Witness ==
  /\ last.op = "create_identifier"
  /\ last.args = <<"">>
  /\ last.ret = 0
  /\ Len(nodes_) = 3
  /\ last.size_before = 3
  /\ nodes_[2].tag = "Expression"
  /\ nodes_[3].tag = "Identifier"

\* C3: the two pools are independent. For the same text s the handles that
\* create_identifier(s) and create_arithmetic_identifier(s) return are distinct
\* and name an Identifier and an ArithmeticIdentifier, whatever the order of
\* the calls, and a call of one leaves alone what the other pool holds for s.
C3_PoolsIndependent ==
  /\ [](/\ (last.op = "create_identifier" /\ last.outcome = "returned") =>
             /\ node(last.ret).tag = "Identifier"
             /\ node(last.ret).payload.identifier = last.args[1]
        /\ (last.op = "create_arithmetic_identifier" /\ last.outcome = "returned") =>
             /\ node(last.ret).tag = "ArithmeticIdentifier"
             /\ node(last.ret).payload.identifier = last.args[1]
        /\ \A s \in DOMAIN identifier_hash_ \cap DOMAIN arithmetic_identifier_hash_ :
             identifier_hash_[s] # arithmetic_identifier_hash_[s])
  /\ [][/\ last'.op = "create_identifier" =>
             /\ arithmetic_identifier_hash_' = arithmetic_identifier_hash_
             /\ \A s \in Texts :
                  Prior("ArithmeticIdentifier", s, Len(nodes_))' =
                    Prior("ArithmeticIdentifier", s, Len(nodes_))
        /\ last'.op = "create_arithmetic_identifier" =>
             /\ identifier_hash_' = identifier_hash_
             /\ \A s \in Texts :
                  Prior("Identifier", s, Len(nodes_))' =
                    Prior("Identifier", s, Len(nodes_))]_vars

C3_Witness ==
  /\ last.op = "create_identifier"
  /\ last.args = <<"x">>
  /\ last.ret = 2
  /\ "x" \in DOMAIN arithmetic_identifier_hash_
  /\ arithmetic_identifier_hash_["x"] = 0
  /\ calls = 4

\* C4: numerals are never interned. Every call of create_numeral(t) appends a
\* Numeral holding t and returns its handle, the size of the arena before the
\* call, which no earlier call can have returned: k calls with the same t give
\* k distinct handles and k more nodes.
C4_NumeralsNotInterned ==
  (last.op = "create_numeral" /\ last.outcome = "returned") =>
    /\ Len(nodes_) = last.size_before + 1
    /\ last.ret = last.size_before
    /\ node(last.ret).tag = "Numeral"
    /\ node(last.ret).payload.value = last.args[1]

C4_Witness ==
  /\ last.op = "create_numeral"
  /\ last.args = <<"x">>
  /\ Len(nodes_) = 3
  /\ \A i \in 1..3 : nodes_[i].tag = "Numeral" /\ nodes_[i].payload.value = "x"

\* Every child handle is strictly less than the handle of its node.
Acyclic ==
  \A i \in 1..Len(nodes_) :
    \A j \in 1..Len(nodes_[i].children) : nodes_[i].children[j] < nodes_[i].id

\* C5 as stated: in every reachable arena state every child handle is strictly
\* less than the handle of the node that lists it, whatever handles the callers
\* passed to the create operations.
C5_AcyclicWhateverHandles == Acyclic

\* C5, amended: every child handle is strictly less than the handle of the
\* node that lists it, provided every handle passed to the create operations
\* named a node stored at the time of the call and no child handle was
\* rewritten through the non-const foreach_child.
C5_AcyclicStoredHandles == wellformed => Acyclic

C5_Witness ==
  /\ wellformed
  /\ Len(nodes_) = 2
  /\ nodes_[1].tag = "Identifier"
  /\ nodes_[2].tag = "WireDeclaration"
  /\ nodes_[2].children = <<0>>

\* The last call was a declaration adapter that returned a handle.
Declared == last.op \in DeclOps /\ last.outcome = "returned"

\* The class of the declaration each adapter creates.
DeclTag(op) ==
  CASE op = "create_input_declaration" -> "InputDeclaration"
    [] op = "create_output_declaration" -> "OutputDeclaration"
    [] op = "create_wire_declaration" -> "WireDeclaration"

\* The identifier vector the adapters are to build from the stored node id.
Normalized(id) ==
  IF node(id).tag = "IdentifierList" THEN node(id).children ELSE <<id>>

\* C6: declaration normalization. For each of the six adapters, when id names
\* an IdentifierList the identifier vector of the new declaration equals the
\* children of the list, in their order and without the handle of the list
\* added (a list built from handles of stored nodes never holds its own
\* handle, so the handle of the list is then absent from the vector); when id
\* names an Identifier x the vector equals [x].
C6_Normalization ==
  (Declared /\ last.args[1] < last.size_before) =>
    /\ last.ret = last.size_before
    /\ node(last.ret).tag = DeclTag(last.op)
    /\ node(last.args[1]).tag = "IdentifierList" =>
         /\ identifiers(node(last.ret)) = node(last.args[1]).children
         /\ wellformed => last.args[1] \notin Range(identifiers(node(last.ret)))
    /\ node(last.args[1]).tag = "Identifier" =>
         identifiers(node(last.ret)) = <<last.args[1]>>

C6_Witness ==
  /\ Declared
  /\ last.op = "create_output_declaration"
  /\ Len(last.args) = 1
  /\ last.args[1] = 1
  /\ wellformed
  /\ nodes_[1].tag = "Identifier"
  /\ nodes_[2].tag = "IdentifierList"
  /\ nodes_[2].children = <<0, 0>>
  /\ identifiers(nodes_[3]) = <<0, 0>>

\* The last call was a word-level adapter that returned, with id naming a
\* stored node and rid naming a stored RangeExpression.
Lifted ==
  /\ Declared
  /\ Len(last.args) = 2
  /\ last.args[1] < last.size_before
  /\ last.args[2] < last.size_before
  /\ node(last.args[2]).tag = "RangeExpression"

\* C7 as stated: range lift. create_*_declaration(ids, rid) with rid naming a
\* RangeExpression gives a declaration with word_level = true, with hi and lo
\* those of the RangeExpression, and with children that do not contain rid;
\* create_*_declaration(ids) gives word_level = false (bit_level = true).
C7_RangeLiftNeverListsRid ==
  /\ Lifted =>
       /\ word_level(node(last.ret))
       /\ hi_of(node(last.ret)) = hi_of(node(last.args[2]))
       /\ lo_of(node(last.ret)) = lo_of(node(last.args[2]))
       /\ last.args[2] \notin Range(node(last.ret).children)
  /\ (Declared /\ Len(last.args) = 1) =>
       (~word_level(node(last.ret)) /\ bit_level(node(last.ret)))

\* C7, amended: the same, except that the children are exactly the normalized
\* identifier vector, to which rid is not added: rid is among the children
\* only when the IdentifierList named by ids lists rid itself.
C7_RangeLift ==
  /\ Lifted =>
       /\ word_level(node(last.ret))
       /\ ~bit_level(node(last.ret))
       /\ hi_of(node(last.ret)) = hi_of(node(last.args[2]))
       /\ lo_of(node(last.ret)) = lo_of(node(last.args[2]))
       /\ node(last.ret).children = Normalized(last.args[1])
  /\ (Declared /\ Len(last.args) = 1) =>
       (~word_level(node(last.ret)) /\ bit_level(node(last.ret)))

C7_Witness ==
  /\ Lifted
  /\ last.op = "create_wire_declaration"
  /\ nodes_[1].tag = "Identifier"
  /\ nodes_[2].tag = "RangeExpression"
  /\ nodes_[2].children = <<0, 1>>
  /\ last.args = <<0, 1>>
  /\ hi_of(nodes_[3]) = 0
  /\ lo_of(nodes_[3]) = 1
  /\ nodes_[3].children = <<0>>

\* C8: in each of the six adapters, when id names a stored node that is
\* neither an Identifier nor an IdentifierList, the call ends the process with
\* std::abort and appends no declaration.
C8_WrongVariantAborts ==
  (/\ last.op \in DeclOps
   /\ last.args[1] < last.size_before
   /\ node(last.args[1]).tag \notin {"Identifier", "IdentifierList"}) =>
    /\ last.outcome = "abort"
    /\ ~alive
    /\ Len(nodes_) = last.size_before

C8_Witness ==
  /\ last.op = "create_input_declaration"
  /\ Len(last.args) = 2
  /\ Len(nodes_) = 2
  /\ nodes_[1].tag = "Numeral"
  /\ nodes_[2].tag = "RangeExpression"
  /\ last.args = <<0, 1>>
  /\ last.outcome = "abort"
  /\ ~alive

\* C9: in the word-level adapters, when rid names a stored node that is not a
\* RangeExpression the call ends the process, and no declaration is created
\* from the data of that node.
C9_WrongRangeAborts ==
  (/\ last.op \in DeclOps
   /\ Len(last.args) = 2
   /\ last.args[2] < last.size_before
   /\ node(last.args[2]).tag # "RangeExpression") =>
    /\ last.outcome # "returned"
    /\ ~alive
    /\ Len(nodes_) = last.size_before

C11_HandleOrError ==
  last.op = "ast_or_error" =>
    /\ (Len(last.args) = 1 /\ last.args[1][Width - 1] = 0) =>
         (valid(last.ret) /\ ast(last.ret) = last.args[1])
    /\ Len(last.args) = 0 => ~valid(last.ret)

C11_Witness ==
  /\ last.op = "ast_or_error"
  /\ last.args = <<uint32(2147483647)>>
  /\ valid(last.ret)
  /\ ast(last.ret) = uint32(2147483647)
  /\ last.ret.ast_ # last.args[1]

ExprOps == {"create_sum_expression", "create_mul_expression",
            "create_not_expression", "create_and_expression",
            "create_or_expression", "create_xor_expression"}

ExprKind(op) ==
  CASE op = "create_sum_expression" -> EXPR_ADD
    [] op = "create_mul_expression" -> EXPR_MUL
    [] op = "create_not_expression" -> EXPR_NOT
    [] op = "create_and_expression" -> EXPR_AND
    [] op = "create_or_expression" -> EXPR_OR
    [] op = "create_xor_expression" -> EXPR_XOR

\* C13: expression arity matches kind in every reachable arena state. Every
\* Expression node has one child when its kind is Not and two when its kind is
\* Add, Mul, And, Or or Xor, also after its child handles were rewritten; the
\* node create_not_expression(expr) returns has kind Not and the one child
\* [expr], and the node create_sum/mul/and/or/xor_expression(left, right)
\* returns has the kind of that create and the children [left, right] in
\* argument order.
C13_ExpressionArity ==
  /\ \A i \in 1..Len(nodes_) :
       nodes_[i].tag = "Expression" =>
         /\ nodes_[i].payload.kind \in {EXPR_ADD, EXPR_MUL, EXPR_NOT, EXPR_AND,
                                        EXPR_OR, EXPR_XOR}
         /\ Len(nodes_[i].children) =
              IF nodes_[i].payload.kind = EXPR_NOT THEN 1 ELSE 2
  /\ (last.op \in ExprOps /\ last.outcome = "returned") =>
       /\ last.ret = last.size_before
       /\ node(last.ret).tag = "Expression"
       /\ node(last.ret).payload.kind = ExprKind(last.op)
       /\ node(last.ret).children = last.args
       /\ Len(last.args) = IF last.op = "create_not_expression" THEN 1 ELSE 2

C13_Witness ==
  /\ last.op = "create_xor_expression"
  /\ last.args = <<0, 1>>
  /\ Len(nodes_) = 2
  /\ nodes_[1].tag = "Numeral"
  /\ nodes_[2].payload.kind = EXPR_XOR
  /\ nodes_[2].children = <<0, 1>>

\* The step is a call of an interning create whose lookup finds the text.
InternHit ==
  \/ last'.op = "create_identifier" /\ found(identifier_hash_, last'.args[1])
  \/ /\ last'.op = "create_arithmetic_identifier"
     /\ found(arithmetic_identifier_hash_, last'.args[1])

\* C14: every create operation, in any sequence, leaves every node stored
\* before it unchanged (same handle, class, payload and children) and never
\* shrinks the arena: a create that returns grows the arena by exactly one
\* node, or by none when the lookup of an interning create hits.
C14_CreatesKeepStoredNodes ==
  [][last'.op \in CreateOps =>
       /\ Len(nodes_') >= Len(nodes_)
       /\ SubSeq(nodes_', 1, Len(nodes_)) = nodes_
       /\ last'.outcome = "returned" =>
            Len(nodes_') = Len(nodes_) + (IF InternHit THEN 0 ELSE 1)
       /\ last'.outcome # "returned" => Len(nodes_') = Len(nodes_)]_vars

C14_Witness ==
  /\ last.op = "create_arithmetic_identifier"
  /\ last.outcome = "returned"
  /\ last.ret = 0
  /\ calls = 2
  /\ Len(nodes_) = 1
  /\ nodes_[1] = ast_arithmetic_identifier(0, "x")

====
